---------------------------- MODULE Spec2Model ----------------------------
(***************************************************************************)
(* Portfolio selection as a constrained quadratic model (CQM).             *)
(*                                                                         *)
(* exercise_1.py and exercise_3.py each define one binary variable per     *)
(* stock, build a CQM (objective and constraints), hand it to the hybrid   *)
(* sampler and print the returned sampleset.                               *)
(*                                                                         *)
(* Values of the expression builder are records                            *)
(*   [tag, vartype, vars, lin, off]                                        *)
(* tag "num" is a plain Python number (off holds it), tag "bqm" a          *)
(* quadratic model of the given vartype with the ordered variable labels   *)
(* vars, the linear biases lin (a function on the labels) and the offset   *)
(* off.  No script builds a quadratic term, so none is carried.            *)
(* Prices, returns and the budget are integers here; the scripts use       *)
(* floats, whose rounding is not modelled.                                 *)
(*                                                                         *)
(* An operation on objects returns, next to its result, the operand        *)
(* objects as it left them, so that a change of an argument is visible.    *)
(*                                                                         *)
(* Spec calls define_variables and define_cqm on arguments drawn from      *)
(* bounded sets; MainSpec is a run of a script.                            *)
(***************************************************************************)
EXTENDS Integers, Sequences, FiniteSets, TLC

VARIABLES
    pc,            \* position of the caller / of the script
    exercise,      \* 1 or 3: which script's define_cqm is in use
    stockcodes,    \* the list of stock codes
    price,         \* list of prices (exercise 3)
    returns,       \* list of average returns
    k,             \* num_stocks_to_buy
    budget,        \* budget (exercise 3)
    stocks,        \* the list of variable objects, by position
    cqm,           \* the model define_cqm returned, or NoModel
    err,           \* "none" or the exception that ended the last call
    sampleset,     \* what the sampler returned, or NoSampleset
    samplerCalls,  \* number of sampler.sample_cqm calls made
    printed        \* what has been written to standard output, in order

vars == <<pc, exercise, stockcodes, price, returns, k, budget, stocks, cqm,
          err, sampleset, samplerCalls, printed>>

---------------------------------------------------------------------------
(* Bounds and input domains *)

\* longest list of stock codes, prices or returns drawn
MaxLen == 3

\* the first stock codes of the scripts' stockcodes list
StockList == <<"T", "SFL", "PFE", "XOM">>

ReturnVals == {-1, 2}
PriceVals == {-30, 30}
BudgetVals == {0, 90}

Range(s) == {s[i] : i \in 1..Len(s)}

BoundedSeq(S, n) == UNION {[1..l -> S] : l \in 0..n}

\* position of a code in StockList
CodeIndex(c) == CHOOSE i \in 1..Len(StockList) : StockList[i] = c

\* Lists of stock codes up to renaming of the codes: each code is either one
\* already in the list or the next unused one of StockList.  Lists with
\* repeated codes are included.
IsCodeList(s) ==
    \A i \in 1..Len(s) :
        CodeIndex(s[i]) <= 1 + Cardinality({CodeIndex(s[j]) : j \in 1..(i-1)})

CodeLists == {s \in BoundedSeq(Range(StockList), MaxLen) : IsCodeList(s)}

---------------------------------------------------------------------------
(* The expression builder *)

NoLin == [v \in {} |-> 0]

Num(c) ==
    [tag |-> "num", vartype |-> "none", vars |-> <<>>, lin |-> NoLin, off |-> c]

\* variant: the stock code is left out of the label
BadLabel(stock) == "s_"

\* f"s_{stock}"
Label(stock) == "s_" \o stock

\* a model of one variable with bias 1
Variable(vartype, label) ==
    [tag |-> "bqm", vartype |-> vartype, vars |-> <<label>>,
     lin |-> (label :> 1), off |-> 0]

\* Binary(label): one binary (0/1) variable
Binary(label) == Variable("BINARY", label)

\* the values a variable of the vartype takes
Values(vartype) == IF vartype = "BINARY" THEN {0, 1} ELSE {-1, 1}

LinOf(a, v) == IF v \in DOMAIN a.lin THEN a.lin[v] ELSE 0

\* a + b of two values; a new object, neither operand is changed.
\* number + number is a number, anything else a bqm over the union of the
\* variables, a's first.
Plus(a, b) ==
    IF a.tag = "num" /\ b.tag = "num" THEN Num(a.off + b.off)
    ELSE LET vs == a.vars \o SelectSeq(b.vars, LAMBDA v : v \notin Range(a.vars))
         IN [tag |-> "bqm",
             vartype |-> IF a.tag = "bqm" THEN a.vartype ELSE b.vartype,
             vars |-> vs,
             lin |-> [v \in Range(vs) |-> LinOf(a, v) + LinOf(b, v)],
             off |-> a.off + b.off]

\* a * c for a number c: every bias and the offset scaled
Scaled(a, c) ==
    [tag |-> a.tag, vartype |-> a.vartype, vars |-> a.vars,
     lin |-> [v \in DOMAIN a.lin |-> a.lin[v] * c], off |-> a.off * c]


\* variant: bqm *= c, the product is stored in the operand itself
InPlaceTimes(a, c) == [res |-> Scaled(a, c), self |-> Scaled(a, c)]

\* bqm * c: a new object holding the product; the operand (self) is kept
Times(a, c) == [res |-> Scaled(a, c), self |-> a]

\* acc + item as the builtin sum() evaluates it: a new object, the item kept
PyAdd(acc, item) == [res |-> Plus(acc, item), item |-> item]

\* sum(objs): acc = 0, then acc = acc + item for each item in order.
\* Returns the total and the objects of the list as the additions left them.
RECURSIVE SumFrom(_, _, _)
SumFrom(acc, objs, i) ==
    IF i > Len(objs) THEN [val |-> acc, objs |-> objs]
    ELSE LET r == PyAdd(acc, objs[i])
         IN SumFrom(r.res, [objs EXCEPT ![i] = r.item], i + 1)

PySum(objs) == SumFrom(Num(0), objs, 1)

\* lhs == rhs: a comparison when lhs is a model, a plain bool when lhs is a
\* number (sum([]) is the int 0)
PyEq(lhs, rhs) ==
    IF lhs.tag = "num" THEN [tag |-> "bool", val |-> (lhs.off = rhs)]
    ELSE [tag |-> "cmp", lhs |-> lhs, sense |-> "==", rhs |-> rhs]

---------------------------------------------------------------------------
(* The constrained quadratic model *)

NoModel == [tag |-> "none"]

EmptyBQM ==
    [tag |-> "bqm", vartype |-> "BINARY", vars |-> <<>>, lin |-> NoLin,
     off |-> 0]

\* ConstrainedQuadraticModel()
EmptyCQM ==
    [tag |-> "cqm", variables |-> <<>>, vartype |-> NoLin,
     constraints |-> <<>>, objective |-> EmptyBQM]

Raise(e) == [err |-> e, cqm |-> NoModel]
Return(m) == [err |-> "none", cqm |-> m]

ConstraintLabels(m) == {m.constraints[i].label : i \in 1..Len(m.constraints)}

\* the model's variables extended by those of expression e, in order of
\* first use, each new one with e's vartype
WithVariables(m, e) ==
    LET vs == m.variables \o
              SelectSeq(e.vars, LAMBDA v : v \notin Range(m.variables))
    IN [m EXCEPT !.variables = vs,
                 !.vartype = [v \in Range(vs) |->
                                 IF v \in DOMAIN m.vartype THEN m.vartype[v]
                                 ELSE e.vartype]]

\* cqm.add_constraint_from_model(lhs, sense, rhs, label)
add_constraint_from_model(m, lhs, sense, rhs, label) ==
    IF label \in ConstraintLabels(m) THEN Raise("ValueError")
    ELSE Return([WithVariables(m, lhs) EXCEPT
            !.constraints = Append(@, [label |-> label, lhs |-> lhs,
                                      sense |-> sense, rhs |-> rhs])])

\* cqm.add_constraint(data, label): a comparison is added, a bool is refused
add_constraint(m, data, label) ==
    IF data.tag = "cmp"
    THEN add_constraint_from_model(m, data.lhs, data.sense, data.rhs, label)
    ELSE Raise("TypeError")

\* zip(a, b): pairs by position, as many as the shorter list has
Zip(a, b) ==
    LET n == IF Len(a) <= Len(b) THEN Len(a) ELSE Len(b)
    IN [i \in 1..n |-> <<a[i], b[i]>>]

\* the linear expression of an iterable of (variable, bias) terms, each
\* variable with the vartype it has in the model; the biases of a repeated
\* variable add up
RECURSIVE TermsToModel(_, _, _, _)
TermsToModel(m, terms, i, acc) ==
    IF i > Len(terms) THEN acc
    ELSE TermsToModel(m, terms, i + 1,
            Plus(acc, Scaled(Variable(m.vartype[terms[i][1]], terms[i][1]),
                             terms[i][2])))

\* cqm.add_constraint_from_iterable(terms, sense, rhs=rhs, label=label):
\* every variable of a term must already belong to the model
add_constraint_from_iterable(m, terms, sense, rhs, label) ==
    IF \E i \in 1..Len(terms) : terms[i][1] \notin Range(m.variables)
    THEN Raise("ValueError")
    ELSE add_constraint_from_model(m, TermsToModel(m, terms, 1, EmptyBQM),
                                   sense, rhs, label)

\* cqm.set_objective(objective)
set_objective(m, objective) ==
    IF objective.tag # "bqm" THEN Raise("TypeError")
    ELSE Return([WithVariables(m, objective) EXCEPT !.objective = objective])

---------------------------------------------------------------------------
(* What a model means to the sampler: energies and feasibility *)

RECURSIVE LinearSum(_, _, _)
LinearSum(e, x, i) ==
    IF i > Len(e.vars) THEN 0
    ELSE e.lin[e.vars[i]] * x[e.vars[i]] + LinearSum(e, x, i + 1)

\* value of expression e under the 0/1 assignment x
Energy(e, x) == e.off + LinearSum(e, x, 1)

\* whether assignment x satisfies constraint c
Satisfies(c, x) ==
    CASE c.sense = "==" -> Energy(c.lhs, x) = c.rhs
      [] c.sense = "<=" -> Energy(c.lhs, x) <= c.rhs
      [] c.sense = ">=" -> Energy(c.lhs, x) >= c.rhs

\* the assignments of the model's variables (0/1 for a binary variable)
Assignments(m) ==
    IF \A v \in Range(m.variables) : m.vartype[v] = "BINARY"
    THEN [Range(m.variables) -> Values("BINARY")]
    ELSE {x \in [Range(m.variables) -> {-1, 0, 1}] :
             \A v \in Range(m.variables) : x[v] \in Values(m.vartype[v])}

Feasible(m, x) == \A i \in 1..Len(m.constraints) : Satisfies(m.constraints[i], x)

---------------------------------------------------------------------------
(* The scripts' functions *)

\* define_variables(stockcodes): [Binary(f"s_{stock}") for stock in stockcodes]
define_variables(codes) == [i \in 1..Len(codes) |-> Binary(Label(codes[i]))]

\* variant: the sign is not changed
Identity(r) == r

\* -r
Neg(r) == 0 - r

\* variant: returns read from the end of the list
ReturnFromEnd(rets, i) == rets[Len(rets) + 1 - i]

\* returns[i], for the i-th stock
ReturnAt(rets, i) == rets[i]

\* sum(to_buy[i] * -returns[i] for i in range(len(to_buy))): the terms are
\* made and added one at a time; returns[i] past the end of returns raises.
\* Returns the total and the objects of to_buy as the products left them.
RECURSIVE ObjectiveFrom(_, _, _, _)
ObjectiveFrom(acc, to_buy, rets, i) ==
    IF i > Len(to_buy) THEN [err |-> "none", val |-> acc, objs |-> to_buy]
    ELSE IF i > Len(rets)
    THEN [err |-> "IndexError", val |-> acc, objs |-> to_buy]
    ELSE LET t == Times(to_buy[i], Neg(ReturnAt(rets, i)))
         IN ObjectiveFrom(Plus(acc, t.res), [to_buy EXCEPT ![i] = t.self],
                          rets, i + 1)

\* variant: sum(to_buy) <= num_stocks_to_buy
AtMostK(total, num) ==
    IF total.tag = "num" THEN [tag |-> "bool", val |-> (total.off <= num)]
    ELSE [tag |-> "cmp", lhs |-> total, sense |-> "<=", rhs |-> num]

\* sum(to_buy) == num_stocks_to_buy, as handed to add_constraint
ChooseK(total, num) == PyEq(total, num)

\* exercise_1.define_cqm(stocks, num_stocks_to_buy, returns).
\* Returns err ("none" or the exception raised), the model, and the objects
\* of the caller's stocks list as the call left them.
define_cqm_1(stks, num, rets) ==
    LET total == PySum(stks)
        c1 == add_constraint(EmptyCQM, ChooseK(total.val, num), "choose k stocks")
        obj == ObjectiveFrom(Num(0), total.objs, rets, 1)
        done == set_objective(c1.cqm, obj.val)
    IN IF c1.err # "none"
       THEN [err |-> c1.err, cqm |-> NoModel, stocks |-> total.objs]
       ELSE IF obj.err # "none"
       THEN [err |-> obj.err, cqm |-> NoModel, stocks |-> obj.objs]
       ELSE [err |-> done.err, cqm |-> done.cqm, stocks |-> obj.objs]

\* variant: the names in reverse order
NamesReversed(stks) ==
    [i \in 1..Len(stks) |-> stks[Len(stks) + 1 - i].vars[1]]

\* extract_stock_names(stocks): stock.variables[0] of every stock
extract_stock_names(stks) == [i \in 1..Len(stks) |-> stks[i].vars[1]]

\* variant: price[i] indexed for every stock, raising past its end
ZipOrRaise(names, prices) ==
    IF Len(prices) < Len(names) THEN [err |-> "IndexError", terms |-> <<>>]
    ELSE [err |-> "none", terms |-> Zip(names, prices)]

\* zip(extract_stock_names(to_buy), price): the terms of the budget
\* constraint; zip raises nothing
PriceTerms(names, prices) == [err |-> "none", terms |-> Zip(names, prices)]

\* variant: spend at least budget
AtLeast == ">="

\* the sense of the budget constraint
BudgetSense == "<="

\* exercise_3.define_cqm(stocks, num_stocks_to_buy, price, returns, budget)
define_cqm_3(stks, num, prices, rets, bud) ==
    LET total == PySum(stks)
        c1 == add_constraint(EmptyCQM, ChooseK(total.val, num), "choose k stocks")
        pt == PriceTerms(extract_stock_names(total.objs), prices)
        c2 == add_constraint_from_iterable(c1.cqm, pt.terms, BudgetSense, bud,
                                           "budget_limitation")
        obj == ObjectiveFrom(Num(0), total.objs, rets, 1)
        done == set_objective(c2.cqm, obj.val)
    IN IF c1.err # "none"
       THEN [err |-> c1.err, cqm |-> NoModel, stocks |-> total.objs]
       ELSE IF pt.err # "none"
       THEN [err |-> pt.err, cqm |-> NoModel, stocks |-> total.objs]
       ELSE IF c2.err # "none"
       THEN [err |-> c2.err, cqm |-> NoModel, stocks |-> total.objs]
       ELSE IF obj.err # "none"
       THEN [err |-> obj.err, cqm |-> NoModel, stocks |-> obj.objs]
       ELSE [err |-> done.err, cqm |-> done.cqm, stocks |-> obj.objs]

\* the define_cqm of the script in use
define_cqm(ex, stks, num, prices, rets, bud) ==
    IF ex = 1 THEN define_cqm_1(stks, num, rets)
    ELSE define_cqm_3(stks, num, prices, rets, bud)

---------------------------------------------------------------------------
(* Calls of the functions on arbitrary arguments *)

NoSampleset == [tag |-> "none"]

Init ==
    /\ pc = "start"
    /\ exercise = 1
    /\ stockcodes = <<>>
    /\ price = <<>>
    /\ returns = <<>>
    /\ k = 0
    /\ budget = 0
    /\ stocks = <<>>
    /\ cqm = NoModel
    /\ err = "none"
    /\ sampleset = NoSampleset
    /\ samplerCalls = 0
    /\ printed = <<>>

\* stocks = define_variables(stockcodes)
CallDefineVariables ==
    /\ pc = "start"
    /\ \E codes \in CodeLists :
        /\ stockcodes' = codes
        /\ stocks' = define_variables(codes)
    /\ pc' = "vars"
    /\ UNCHANGED <<exercise, price, returns, k, budget, cqm, err, sampleset,
                   samplerCalls, printed>>

\* cqm = exercise_1.define_cqm(stocks, num_stocks_to_buy, returns)
CallDefineCqm1 ==
    /\ pc = "vars"
    /\ \E num \in 0..MaxLen, rets \in BoundedSeq(ReturnVals, MaxLen) :
        \E r \in {define_cqm_1(stocks, num, rets)} :
           /\ exercise' = 1
           /\ k' = num
           /\ returns' = rets
           /\ cqm' = r.cqm
           /\ err' = r.err
           /\ stocks' = r.stocks
    /\ pc' = "called"
    /\ UNCHANGED <<stockcodes, price, budget, sampleset, samplerCalls, printed>>

\* cqm = exercise_3.define_cqm(stocks, num_stocks_to_buy, price, returns, budget)
CallDefineCqm3 ==
    /\ pc = "vars"
    /\ \E num \in 0..MaxLen, prices \in BoundedSeq(PriceVals, MaxLen),
          rets \in BoundedSeq(ReturnVals, MaxLen), bud \in BudgetVals :
        \E r \in {define_cqm_3(stocks, num, prices, rets, bud)} :
           /\ exercise' = 3
           /\ k' = num
           /\ price' = prices
           /\ returns' = rets
           /\ budget' = bud
           /\ cqm' = r.cqm
           /\ err' = r.err
           /\ stocks' = r.stocks
    /\ pc' = "called"
    /\ UNCHANGED <<stockcodes, sampleset, samplerCalls, printed>>

\* the same define_cqm called once more on the same arguments
CallDefineCqmAgain ==
    /\ pc = "called"
    /\ \E r \in {define_cqm(exercise, stocks, k, price, returns, budget)} :
          /\ cqm' = r.cqm
          /\ err' = r.err
          /\ stocks' = r.stocks
    /\ pc' = "called"
    /\ UNCHANGED <<exercise, stockcodes, price, returns, k, budget, sampleset,
                   samplerCalls, printed>>

Next ==
    \/ CallDefineVariables
    \/ CallDefineCqm1
    \/ CallDefineCqm3
    \/ CallDefineCqmAgain

Spec == Init /\ [][Next]_vars

---------------------------------------------------------------------------
(* A run of a script (the __main__ block) *)

\* num_stocks_to_buy = 2
NumStocksToBuy == 2

\* budget = 80
Budget == 80

\* prices utilities.get_stock_info() may report
MainPriceVals == {30, 60}

\* stockcodes = ["T", "SFL", "PFE", ...], cut to MaxLen entries
MainStockCodes == SubSeq(StockList, 1, MaxLen)

\* utilities.process_sampleset(sampleset, stockcodes): the line printed for
\* the solution, the codes of the stocks the sample selects
process_sampleset(ss, codes) ==
    [solution |-> {codes[i] : i \in {j \in 1..Len(codes) :
                                        ss.sample[Label(codes[j])] = 1}},
     energy |-> ss.energy,
     feasible |-> ss.is_feasible]

\* the header each script prints before the solution
Header(ex) == IF ex = 1 THEN "Part 1 solution:" ELSE "Part 2 solution:"

MainInit ==
    /\ pc = "main"
    /\ exercise \in {1, 3}
    /\ stockcodes = MainStockCodes
    /\ price = <<>>
    /\ returns = <<>>
    /\ k = NumStocksToBuy
    /\ budget = Budget
    /\ stocks = <<>>
    /\ cqm = NoModel
    /\ err = "none"
    /\ sampleset = NoSampleset
    /\ samplerCalls = 0
    /\ printed = <<>>

\* price, returns, variance = utilities.get_stock_info()
MainGetStockInfo ==
    /\ pc = "main"
    /\ \/ /\ price' \in BoundedSeq(MainPriceVals, MaxLen)
          /\ returns' \in BoundedSeq(ReturnVals, MaxLen)
          /\ pc' = "info"
          /\ err' = err
       \/ /\ pc' = "failed"
          /\ err' = "Exception"
          /\ UNCHANGED <<price, returns>>
    /\ UNCHANGED <<exercise, stockcodes, k, budget, stocks, cqm, sampleset,
                   samplerCalls, printed>>

\* stocks = define_variables(stockcodes)
MainDefineVariables ==
    /\ pc = "info"
    /\ stocks' = define_variables(stockcodes)
    /\ pc' = "variables"
    /\ UNCHANGED <<exercise, stockcodes, price, returns, k, budget, cqm, err,
                   sampleset, samplerCalls, printed>>

\* cqm = define_cqm(...); an exception ends the script
MainDefineCqm ==
    /\ pc = "variables"
    /\ \E r \in {define_cqm(exercise, stocks, k, price, returns, budget)} :
          /\ cqm' = r.cqm
          /\ err' = r.err
          /\ stocks' = r.stocks
          /\ pc' = IF r.err = "none" THEN "model" ELSE "failed"
    /\ UNCHANGED <<exercise, stockcodes, price, returns, k, budget, sampleset,
                   samplerCalls, printed>>

\* variant: the solution header is printed without sampling
PrintUnsampled ==
    /\ pc = "model"
    /\ printed' = <<Header(exercise)>>
    /\ pc' = "done"
    /\ UNCHANGED <<exercise, stockcodes, price, returns, k, budget, stocks,
                   cqm, err, sampleset, samplerCalls>>

\* sampleset = sample_cqm(cqm): one call of the remote sampler, which
\* answers with some assignment of the model it was given, or fails
MainSampleCqm ==
    /\ pc = "model"
    /\ samplerCalls' = samplerCalls + 1
    /\ \/ /\ \E x \in Assignments(cqm) :
                sampleset' = [tag |-> "sampleset", model |-> cqm, sample |-> x,
                              energy |-> Energy(cqm.objective, x),
                              is_feasible |-> Feasible(cqm, x)]
          /\ pc' = "sampled"
          /\ err' = err
       \/ /\ pc' = "failed"
          /\ err' = "SolverError"
          /\ UNCHANGED sampleset
    /\ UNCHANGED <<exercise, stockcodes, price, returns, k, budget, stocks,
                   cqm, printed>>

\* print("\nPart N solution:\n"); utilities.process_sampleset(sampleset, stockcodes)
MainProcessSampleset ==
    /\ pc = "sampled"
    /\ printed' = <<Header(exercise), process_sampleset(sampleset, stockcodes)>>
    /\ pc' = "done"
    /\ UNCHANGED <<exercise, stockcodes, price, returns, k, budget, stocks,
                   cqm, err, sampleset, samplerCalls>>

MainNext ==
    \/ MainGetStockInfo
    \/ MainDefineVariables
    \/ MainDefineCqm
    \/ MainSampleCqm
    \/ MainProcessSampleset

MainSpec == MainInit /\ [][MainNext]_vars

---------------------------------------------------------------------------
(* Properties *)

\* no stock code occurs twice in the list
Distinct(codes) ==
    \A i, j \in 1..Len(codes) : i # j => codes[i] # codes[j]

RECURSIVE SumOver(_, _)
\* sum of f[i] over the indices i in S
SumOver(f, S) ==
    IF S = {} THEN 0
    ELSE LET i == CHOOSE j \in S : TRUE IN f[i] + SumOver(f, S \ {i})

\* the variable of the i-th stock
VarOf(i) == stocks[i].vars[1]

\* the stock variables
StockVars == {VarOf(i) : i \in 1..Len(stocks)}

\* the 0/1 assignments of the stock variables
StockAssignments == [StockVars -> {0, 1}]

\* the variables an assignment sets to 1
Ones(x) == {v \in DOMAIN x : x[v] = 1}

\* the stocks (positions in the stocks list) an assignment selects
Selected(x) == {i \in 1..Len(stocks) : x[VarOf(i)] = 1}

\* a call of define_cqm of the given script has returned a model
Returned(ex) == pc = "called" /\ exercise = ex /\ err = "none"

\* C1: the exercise_1 model has exactly one constraint, labelled
\* "choose k stocks", and with distinct stock codes a 0/1 assignment of the
\* stock variables satisfies the model iff exactly num_stocks_to_buy of the
\* variables are 1.
C1_ChooseExactlyK ==
    Returned(1) =>
        /\ Len(cqm.constraints) = 1
        /\ cqm.constraints[1].label = "choose k stocks"
        /\ Distinct(stockcodes) =>
              \A x \in StockAssignments :
                  Feasible(cqm, x) <=> Cardinality(Ones(x)) = k

C1_Witness ==
    /\ Returned(1)
    /\ Distinct(stockcodes)
    /\ Len(stockcodes) = 3
    /\ k = 2
    /\ \E x, y \in StockAssignments :
          /\ Feasible(cqm, x) /\ Cardinality(Ones(x)) = 2
          /\ ~Feasible(cqm, y) /\ Cardinality(Ones(y)) = 1

\* C2: with len(price) = len(stocks) and distinct stock codes, the
\* exercise_3 model accepts a 0/1 assignment iff exactly num_stocks_to_buy
\* stocks are selected and the prices of the selected stocks sum to at most
\* budget.
C2_ChooseKWithinBudget ==
    (Returned(3) /\ Distinct(stockcodes) /\ Len(price) = Len(stocks)) =>
        \A x \in StockAssignments :
            Feasible(cqm, x) <=>
                /\ Cardinality(Selected(x)) = k
                /\ SumOver(price, Selected(x)) <= budget

C2_Witness ==
    /\ Returned(3)
    /\ Distinct(stockcodes)
    /\ Len(price) = Len(stocks)
    /\ Len(stocks) = 3
    /\ \E x, y \in StockAssignments :
          /\ Feasible(cqm, x)
          /\ Cardinality(Selected(y)) = k
          /\ SumOver(price, Selected(y)) > budget
          /\ ~Feasible(cqm, y)

\* total expected return of the stocks an assignment selects
ReturnOf(x) == SumOver(returns, Selected(x))

\* C3: in both scripts the objective of the model is, on every 0/1
\* assignment, the negated sum of returns[i] over the selected stocks i, so
\* of two assignments the one with the smaller objective has the larger
\* total return.
C3_ObjectiveIsNegatedReturn ==
    (pc = "called" /\ err = "none") =>
        /\ \A x \in StockAssignments :
               Energy(cqm.objective, x) = 0 - ReturnOf(x)
        /\ LET \* <<objective value, total return>> of every assignment
               valued == {<<Energy(cqm.objective, x), ReturnOf(x)>> :
                             x \in StockAssignments}
           IN \A p, q \in valued : p[1] < q[1] => p[2] > q[2]

C3_Witness ==
    /\ Returned(1)
    /\ Len(stocks) = 3
    /\ returns = <<2, -1, 2>>
    /\ \E x, y \in StockAssignments :
          /\ Energy(cqm.objective, x) = -4
          /\ Energy(cqm.objective, y) = 1

\* C4: define_variables returns a list as long as stockcodes whose i-th
\* element is one binary variable labelled "s_" followed by stockcodes[i],
\* so distinct stock codes give distinct variables.
C4_OneVariablePerStock ==
    (pc = "vars") =>
        /\ Len(stocks) = Len(stockcodes)
        /\ \A i \in 1..Len(stockcodes) :
              /\ stocks[i].tag = "bqm"
              /\ stocks[i].vartype = "BINARY"
              /\ Values(stocks[i].vartype) = {0, 1}
              /\ stocks[i].vars = <<"s_" \o stockcodes[i]>>
              /\ stocks[i].lin[stocks[i].vars[1]] = 1
              /\ stocks[i].off = 0
        /\ \A i, j \in 1..Len(stockcodes) :
              stockcodes[i] # stockcodes[j] => VarOf(i) # VarOf(j)

C4_Witness ==
    /\ pc = "vars"
    /\ stockcodes = <<"T", "SFL", "PFE">>
    /\ stocks[2].vars = <<"s_SFL">>

\* the model a script builds from its inputs
ExpectedModel ==
    define_cqm(exercise, define_variables(stockcodes), k, price, returns,
               budget)

\* the labels of the constraints a script's model has
ExpectedLabels ==
    IF exercise = 1 THEN {"choose k stocks"}
    ELSE {"choose k stocks", "budget_limitation"}

\* a model with all its constraints and its objective
Complete(m) ==
    /\ m # NoModel
    /\ ConstraintLabels(m) = ExpectedLabels
    /\ m.objective # EmptyBQM
    /\ m = ExpectedModel.cqm

\* C5: a run defines the variables, builds the model, submits it and prints
\* the solution, in this order: the model is built from the variables
\* defined, the sampler is called at most once and only with the complete
\* model, a run that prints has called it exactly once, and the solution is
\* printed only from a sampleset the sampler returned; a run that failed has
\* printed nothing.
C5_StepsInOrder ==
    /\ samplerCalls <= 1
    /\ cqm # NoModel => stocks = define_variables(stockcodes)
    /\ samplerCalls > 0 => Complete(cqm)
    /\ sampleset # NoSampleset =>
          /\ samplerCalls = 1
          /\ Complete(sampleset.model)
          /\ sampleset.model = cqm
    /\ pc \in {"sampled", "done"} => sampleset # NoSampleset
    /\ printed # <<>> =>
          /\ pc = "done"
          /\ sampleset # NoSampleset
          /\ printed = <<Header(exercise),
                         process_sampleset(sampleset, stockcodes)>>
    /\ pc = "done" => samplerCalls = 1 /\ Len(printed) = 2
    /\ pc = "failed" => printed = <<>> /\ err # "none"

C5_Witness ==
    /\ pc = "done"
    /\ exercise = 3
    /\ samplerCalls = 1
    /\ sampleset.is_feasible
    /\ Len(printed) = 2
    /\ printed[2].solution = {"T", "PFE"}

\* the sets of num stocks (positions in the stocks list)
Portfolios(num) == {S \in SUBSET (1..Len(stocks)) : Cardinality(S) = num}

\* the portfolios the script's requirements allow: any of size k in
\* exercise 1, those of total price at most budget in exercise 3
Allowed ==
    IF exercise = 1 THEN Portfolios(k)
    ELSE {S \in Portfolios(k) : SumOver(price, S) <= budget}

\* the feasible assignments of the model, each with its objective value
FeasibleValued ==
    {<<x, Energy(cqm.objective, x)>> :
        x \in {y \in Assignments(cqm) : Feasible(cqm, y)}}

\* the feasible assignments no feasible assignment has a smaller objective
\* than
FeasibleMinimisers ==
    LET fv == FeasibleValued
    IN {p[1] : p \in {q \in fv : \A r \in fv : q[2] <= r[2]}}

\* every feasible minimiser selects an allowed portfolio of maximal return
MinimisersAreBest ==
    LET allowed == Allowed
        totals == {SumOver(returns, S) : S \in allowed}
    IN \A x \in FeasibleMinimisers :
          /\ Selected(x) \in allowed
          /\ \A t \in totals : t <= ReturnOf(x)

\* a model was returned for inputs on which the claim's portfolios are
\* defined: k at most len(stocks) and a price for every stock
OptimumCase ==
    /\ pc = "called"
    /\ err = "none"
    /\ k <= Len(stocks)
    /\ exercise = 3 => Len(price) >= Len(stocks)

\* C6 as stated: for every input with 0 <= k <= len(stocks), every feasible
\* minimiser of the model selects k stocks of maximal total return (among
\* the portfolios within budget in exercise 3).
C6_AsStated == OptimumCase => MinimisersAreBest

\* C6: the same for inputs whose stocks are built from distinct stock codes.
C6_MinimiserIsBestPortfolio ==
    (OptimumCase /\ Distinct(stockcodes)) => MinimisersAreBest

C6_Witness ==
    /\ OptimumCase
    /\ Distinct(stockcodes)
    /\ exercise = 3
    /\ Len(stocks) = 3
    /\ k = 2
    /\ FeasibleMinimisers # {}
    /\ \E S \in Portfolios(k) :
          /\ S \notin Allowed
          /\ \A T \in Allowed : SumOver(returns, T) < SumOver(returns, S)

\* the exercise_1 model for the stocks, k and returns of the last call
Model1 == define_cqm_1(stocks, k, returns)

\* no price is negative and budget covers all prices together
BudgetCoversAll ==
    /\ \A i \in 1..Len(price) : price[i] >= 0
    /\ SumOver(price, 1..Len(price)) <= budget

\* C7: the exercise_3 model is the exercise_1 model for the same stocks, k
\* and returns plus the budget constraint: same variables, same objective
\* (so the same objective value on every assignment), the same first
\* constraint, and every assignment feasible in it is feasible in the
\* exercise_1 model; with non-negative prices and budget at least the sum of
\* all prices the two have the same feasible assignments.
C7_BudgetIsTheOnlyDifference ==
    Returned(3) =>
        \A m1 \in {Model1} :
            /\ m1.err = "none"
            /\ cqm.variables = m1.cqm.variables
            /\ cqm.vartype = m1.cqm.vartype
            /\ Len(m1.cqm.constraints) = 1
            /\ Len(cqm.constraints) = 2
            /\ cqm.constraints[1] = m1.cqm.constraints[1]
            /\ cqm.constraints[2].label = "budget_limitation"
            /\ \A x \in Assignments(cqm) :
                  /\ Energy(cqm.objective, x) = Energy(m1.cqm.objective, x)
                  /\ Feasible(cqm, x) => Feasible(m1.cqm, x)
                  /\ BudgetCoversAll =>
                        (Feasible(cqm, x) <=> Feasible(m1.cqm, x))

C7_Witness ==
    /\ Returned(3)
    /\ Len(stocks) = 3
    /\ price = <<30, 30, 30>>
    /\ budget = 90
    /\ k = 2
    /\ BudgetCoversAll
    /\ \E x \in Assignments(cqm) : Feasible(cqm, x)
    /\ \E x \in Assignments(cqm) : ~Feasible(cqm, x)

\* the budget constraint of the exercise_3 model
BudgetConstraint == cqm.constraints[2]

\* the prices of the first len(price) stocks that x selects
CountedPrice(x) ==
    SumOver(price, {i \in Selected(x) : i <= Len(price)})

\* C8: exercise_3.define_cqm with fewer prices than stocks (and a return for
\* every stock) raises nothing and its budget constraint counts the prices
\* of the first len(price) stocks only; define_cqm of either script with
\* fewer returns than stocks raises and returns no model.
C8_MismatchedLengths ==
    /\ (pc = "called" /\ exercise = 3 /\ Len(price) < Len(stocks)
            /\ Len(returns) >= Len(stocks)) =>
          /\ err = "none"
          /\ cqm # NoModel
          /\ BudgetConstraint.label = "budget_limitation"
          /\ \A x \in Assignments(cqm) :
                Satisfies(BudgetConstraint, x) <=> CountedPrice(x) <= budget
    /\ (pc = "called" /\ Len(returns) < Len(stocks)) =>
          /\ err = "IndexError"
          /\ cqm = NoModel

C8_Witness ==
    /\ Returned(3)
    /\ Distinct(stockcodes)
    /\ Len(stocks) = 3
    /\ price = <<30>>
    /\ budget = 0
    /\ k = 2
    /\ \E x \in Assignments(cqm) :
          Feasible(cqm, x) /\ Selected(x) = {2, 3}

\* the arguments of the call are the ones of the step before
SameArguments ==
    /\ exercise' = exercise
    /\ k' = k
    /\ price' = price
    /\ returns' = returns
    /\ budget' = budget

\* C9: a call of define_cqm leaves the stocks list and each of its variables
\* as they were (one binary variable each, with its label and bias), and a
\* second call on the same arguments leaves them and returns, price and
\* budget unchanged and yields the same model as the first.
C9_ArgumentsUnchanged ==
    [][pc' = "called" =>
          /\ stocks' = stocks
          /\ stocks' = define_variables(stockcodes)
          /\ stockcodes' = stockcodes
          /\ pc = "called" =>
                (SameArguments /\ cqm' = cqm /\ err' = err)]_vars

C9_Witness ==
    /\ Returned(3)
    /\ Len(stocks) = 3
    /\ stocks = define_variables(stockcodes)
    /\ returns = <<2, -1, 2>>
    /\ price = <<30, -30, 30>>
    /\ \A x \in Assignments(cqm) :
          Energy(cqm.objective, x) = 0 - ReturnOf(x)

=============================================================================
